---- MODULE Spec2Model ----
(***************************************************************************)
(* Model of the UAVCAN/CAN transmit pipeline of canadensis_can::tx         *)
(* (src/canadensis_can/src/tx.rs): Transmitter::new / set_mtu / push /     *)
(* push_inner / push_frame, make_can_id, encode_common_service_fields and  *)
(* make_pseudo_id.                                                         *)
(*                                                                         *)
(* tx.rs calls into modules of the crate that are described by spec.md     *)
(* only: crate::calculate_frame_stats, tx::breakdown::Breakdown,           *)
(* crc::TransferCrc, queue::FrameSink and canadensis_core::NodeId.  Those  *)
(* are modelled from spec.md (sections 3, 4.2, 4.3, 6 and scenario S3).    *)
(***************************************************************************)
EXTENDS Integers, Sequences, FiniteSets, TLC

VARIABLES
    frame_queue,     \* Transmitter.frame_queue: the frames waiting to be sent
    capacity,        \* the number of frames the queue object can hold
    mtu,             \* Transmitter.mtu
    transfer_count,  \* Transmitter.transfer_count (u64, four 16-bit limbs)
    error_count,     \* Transmitter.error_count (u64, four 16-bit limbs)
    pushes,          \* history: the calls of push so far and how they ended
    owners,          \* history: for each queued frame, the push that enqueued it
                     \* and the frame's place among the frames of that push
    last             \* history: the last operation, its input and its outcome

vars == <<frame_queue, capacity, mtu, transfer_count, error_count, pushes, owners,
          last>>

-----------------------------------------------------------------------------
(* Bounds of the model.                                                    *)

\* Largest queue capacity a transmitter is constructed with.
MaxCapacity == 3
\* Number of calls of push in one behaviour of Spec.
MaxPushes == 3
\* Payload lengths 0..MaxSmallLen are pushed under every MTU.
MaxSmallLen == 2
\* Payload lengths around k * (mtu - 1), k in 1..MaxStride, under every MTU.
MaxStride == 2
\* Turns of the loop of make_pseudo_id after which the model gives up.
MaxLoopSteps == 256

-----------------------------------------------------------------------------
(* Fixed-width integer helpers.                                            *)

RECURSIVE Pow2(_)
Pow2(n) == IF n = 0 THEN 1 ELSE 2 * Pow2(n - 1)

RECURSIVE BitOr(_, _, _)
\* a | b on w-bit values
BitOr(a, b, w) ==
    IF w = 0 THEN 0
    ELSE (IF a % 2 = 1 \/ b % 2 = 1 THEN 1 ELSE 0)
         + 2 * BitOr(a \div 2, b \div 2, w - 1)

RECURSIVE BitXor(_, _, _)
\* a ^ b on w-bit values
BitXor(a, b, w) ==
    IF w = 0 THEN 0
    ELSE ((a + b) % 2) + 2 * BitXor(a \div 2, b \div 2, w - 1)

\* a ^ b on 4-bit and on 8-bit values, by table
Xor4Table == [a \in 0..15 |-> [b \in 0..15 |-> BitXor(a, b, 4)]]
Xor8(a, b) == Xor4Table[a \div 16][b \div 16] * 16 + Xor4Table[a % 16][b % 16]

\* bit k of x
Bit(x, k) == (x \div Pow2(k)) % 2

\* bits hi..lo of x
Field(x, hi, lo) == (x \div Pow2(lo)) % Pow2(hi - lo + 1)

\* Option<T>
None == <<>>
Some(x) == <<x>>

\* A u64 as four 16-bit limbs, least significant first.
U64Zero == <<0, 0, 0, 0>>

RECURSIVE U64Inc(_, _)
U64Inc(c, i) ==
    IF i > 4 THEN c
    ELSE IF c[i] = 65535 THEN U64Inc([c EXCEPT ![i] = 0], i + 1)
         ELSE [c EXCEPT ![i] = c[i] + 1]

\* u64::wrapping_add(x, 1)
wrapping_add_1(c) == U64Inc(c, 1)

\* The u64 holding the natural number n (n < 2^31).
U64Of(n) == <<n % 65536, (n \div 65536) % 65536, 0, 0>>

RECURSIVE U64AddFrom(_, _, _, _)
U64AddFrom(a, b, i, carry) ==
    IF i > 4 THEN <<>>
    ELSE <<(a[i] + b[i] + carry) % 65536>>
         \o U64AddFrom(a, b, i + 1, (a[i] + b[i] + carry) \div 65536)

\* a + b modulo 2^64
U64Add(a, b) == U64AddFrom(a, b, 1, 0)

-----------------------------------------------------------------------------
(* Data model (spec.md section 3).                                         *)

\* Mtu: the supported frame sizes, classic CAN and CAN FD.
Mtu == {8, 12, 16, 20, 24, 32, 48, 64}

\* Header::Message
MessageHeader(ts, tid, prio, subject, source) ==
    [kind |-> "Message", timestamp |-> ts, transfer_id |-> tid, priority |-> prio,
     port |-> subject, source |-> source, destination |-> 0]

\* Header::Request and Header::Response (a ServiceHeader each)
ServiceHeader(kind, ts, tid, prio, service, source, destination) ==
    [kind |-> kind, timestamp |-> ts, transfer_id |-> tid, priority |-> prio,
     port |-> service, source |-> Some(source), destination |-> destination]

\* Frame::new(timestamp, id, data)
Frame_new(timestamp, id, data) ==
    [timestamp |-> timestamp, id |-> id, data |-> data]

\* The tail byte: start_of_transfer, end_of_transfer, toggle, transfer-id.
make_tail_byte(start, end, toggle, transfer_id) ==
    (IF start THEN 128 ELSE 0) + (IF end THEN 64 ELSE 0)
    + (IF toggle THEN 32 ELSE 0) + (transfer_id % 32)

-----------------------------------------------------------------------------
(* crate::calculate_frame_stats (spec.md section 4.3, step 1).             *)

\* padding = (-(P + 2)) mod U
last_frame_padding(payload_length, U) == (0 - (payload_length + 2)) % U

calculate_frame_stats(payload_length, m) ==
    IF payload_length <= m - 1
    THEN [frames |-> 1, last_frame_padding |-> 0]
    ELSE [frames |-> (payload_length + last_frame_padding(payload_length, m - 1) + 2)
                     \div (m - 1),
          last_frame_padding |-> last_frame_padding(payload_length, m - 1)]

-----------------------------------------------------------------------------
(* crc::TransferCrc: CRC-16/CCITT-FALSE, polynomial 0x1021, initial value  *)
(* 0xFFFF, no reflection, no final XOR (spec.md section 6).                *)

TransferCrc_new == 65535

RECURSIVE crc_shift(_, _)
\* n shifts of the CRC register, each followed by the XOR with the polynomial
\* when the bit shifted out is 1.
crc_shift(crc, n) ==
    IF n = 0 THEN crc
    ELSE crc_shift(IF crc >= 32768
                   THEN BitXor((crc * 2) % 65536, 4129, 16)
                   ELSE (crc * 2) % 65536,
                   n - 1)

\* The byte-wise CRC table: the register after a byte enters an empty register.
CrcTable == [b \in 0..255 |-> crc_shift(b * 256, 8)]

\* TransferCrc::add(byte)
crc_add(crc, byte) ==
    LET hi == Xor8(crc \div 256, byte)
        t  == CrcTable[hi]
    IN  Xor8(crc % 256, t \div 256) * 256 + (t % 256)

RECURSIVE crc_of(_, _, _, _)
\* The CRC accumulator after bytes[lo..hi] are added to crc, in order.
crc_of(crc, bytes, lo, hi) ==
    IF crc \notin 0..65535 \/ lo > hi THEN crc
    ELSE IF lo = hi THEN crc_add(crc, bytes[lo])
    ELSE LET mid == (lo + hi) \div 2 IN
         crc_of(crc_of(crc, bytes, lo, mid), bytes, mid + 1, hi)

-----------------------------------------------------------------------------
(* tx::breakdown::Breakdown (spec.md section 4.2).  The buffer holds the   *)
(* bytes of the frame being assembled; a buffer of mtu - 1 bytes is sealed *)
(* as a non-final frame when the next byte arrives, so that the last frame *)
(* of the transfer stays in the Breakdown until finish (tx.rs lines 119 to *)
(* 133, spec.md scenario S3).                                              *)

Breakdown_new(m, transfer_id) ==
    [mtu |-> m, transfer_id |-> transfer_id, buffer |-> <<>>,
     frame_index |-> 0, is_first |-> TRUE]

\* Breakdown::add(byte) -> Option<frame data>
Breakdown_add(b, byte) ==
    IF Len(b.buffer) = b.mtu - 1
    THEN [frame |-> Some(Append(b.buffer,
                                make_tail_byte(b.is_first, FALSE,
                                               b.frame_index % 2 = 0,
                                               b.transfer_id))),
          breakdown |-> [b EXCEPT !.buffer = <<byte>>,
                                  !.frame_index = b.frame_index + 1,
                                  !.is_first = FALSE]]
    ELSE [frame |-> None,
          breakdown |-> [b EXCEPT !.buffer = Append(b.buffer, byte)]]

\* Breakdown::finish() -> frame data
Breakdown_finish(b) ==
    Append(b.buffer,
           make_tail_byte(b.is_first, TRUE, b.frame_index % 2 = 0, b.transfer_id))

-----------------------------------------------------------------------------
(* queue::FrameSink: a bounded first-in first-out frame queue (spec.md     *)
(* sections 5 and 6).                                                      *)

\* FrameSink::try_reserve(n): TRUE for Ok, FALSE for OutOfMemory
try_reserve(q, cap, n) == Len(q) + n <= cap

\* FrameSink::push_frame(frame)
queue_push_frame(q, cap, frame) ==
    IF Len(q) < cap
    THEN [ok |-> TRUE, queue |-> Append(q, frame)]
    ELSE [ok |-> FALSE, queue |-> q]

-----------------------------------------------------------------------------
(* canadensis_core::NodeId (spec.md sections 4.1 and 6).                   *)

\* NodeId::from_truncating(bits): the low 7 bits
NodeId_from_truncating(bits) == bits % 128

\* NodeId::is_diagnostic_reserved: the two highest node-ids
NodeId_is_diagnostic_reserved(id) == id >= 126

\* The diagnostic-reserved node-ids, as a set.
DiagnosticReserved == {id \in 0..127 : NodeId_is_diagnostic_reserved(id)}

-----------------------------------------------------------------------------
(* CanId (spec.md section 3): a 29-bit identifier in a 32-bit carrier.     *)

\* CanId::try_from(bits): Some(id) for Ok, None for the error
CanId_try_from(bits) == IF bits < Pow2(29) THEN Some(bits) ELSE None

-----------------------------------------------------------------------------
(* The identifier encoder (tx.rs).                                         *)

RECURSIVE xor_fold(_, _, _, _)
\* payload.iter().fold(state, |state, payload_byte| state ^ *payload_byte)
\* over payload[lo..hi]
xor_fold(state, payload, lo, hi) ==
    IF state \notin 0..255 \/ lo > hi THEN state
    ELSE IF lo = hi THEN Xor8(state, payload[lo])
    ELSE LET mid == (lo + hi) \div 2 IN
         xor_fold(xor_fold(state, payload, lo, mid), payload, mid + 1, hi)

\* id = NodeId::from_truncating(u8::from(id) - 1).  The subtraction is on u8:
\* with id = 0 it overflows (a panic where overflow is checked, 255 where it
\* wraps); underflow records that it was evaluated with id = 0 and the loop
\* goes on with the wrapped value.
pseudo_id_decrement(st) ==
    [id |-> NodeId_from_truncating((st.id + 255) % 256),
     steps |-> st.steps + 1,
     underflow |-> st.underflow \/ st.id = 0]

\* Mutant: an if in the place of the while.
pseudo_id_loop_once(st, reserved) ==
    IF st.id \in reserved THEN pseudo_id_decrement(st) ELSE st

RECURSIVE pseudo_id_loop(_, _)
\* while id.is_diagnostic_reserved() { ... }, with the reserved node-ids as a
\* set.  The model gives up after MaxLoopSteps turns: a result that is still
\* reserved is a loop that has not ended.
pseudo_id_loop(st, reserved) ==
    IF st.id \in reserved /\ st.steps < MaxLoopSteps
    THEN pseudo_id_loop(pseudo_id_decrement(st), reserved)
    ELSE st

\* Mutant: the fold starts from 0.
pseudo_id_run_unseeded(payload, reserved) ==
    pseudo_id_loop([id |-> NodeId_from_truncating(
                               xor_fold(0, payload, 1, Len(payload))),
                    steps |-> 0, underflow |-> FALSE],
                   reserved)

\* The body of make_pseudo_id: the node-id it ends with, the turns of its loop
\* and whether the subtraction overflowed.
pseudo_id_run(payload, reserved) ==
    pseudo_id_loop([id |-> NodeId_from_truncating(
                               xor_fold(85, payload, 1, Len(payload))),
                    steps |-> 0, underflow |-> FALSE],
                   reserved)

\* make_pseudo_id(payload)
make_pseudo_id(payload) == pseudo_id_run(payload, DiagnosticReserved).id

\* Mutant: the destination node-id is shifted by 8.
encode_common_service_fields_dest8(header) ==
    BitOr(BitOr(header.port * Pow2(14), header.destination * Pow2(8), 32),
          Pow2(25), 32)

\* Mutant: the service-id is shifted by 21.
encode_common_service_fields_shift21(header) ==
    BitOr(BitOr(header.port * Pow2(21), header.destination * Pow2(7), 32),
          Pow2(25), 32)

\* Mutant: the destination node-id is not shifted.
encode_common_service_fields_dest0(header) ==
    BitOr(BitOr(header.port * Pow2(14), header.destination, 32),
          Pow2(25), 32)

\* encode_common_service_fields(header)
encode_common_service_fields(header) ==
    BitOr(BitOr(header.port * Pow2(14), header.destination * Pow2(7), 32),
          Pow2(25), 32)

\* The u32 that make_can_id packs, before the conversion to CanId.
make_can_id_bits(header, payload) ==
    LET source_node == IF header.source = None
                       THEN make_pseudo_id(payload)
                       ELSE header.source[1]
        common == BitOr(BitOr(0, header.priority * Pow2(26), 32), source_node, 32)
    IN  CASE header.kind = "Message" ->
               LET subject == BitOr(common, header.port * Pow2(8), 32)
                   fixed == BitOr(subject, BitOr(Pow2(21), Pow2(22), 32), 32)
               IN  IF header.source = None
                   THEN BitOr(fixed, Pow2(24), 32)
                   ELSE fixed
          [] header.kind = "Request" ->
               BitOr(BitOr(common, encode_common_service_fields(header), 32),
                     Pow2(24), 32)
          [] header.kind = "Response" ->
               BitOr(common, encode_common_service_fields(header), 32)

\* What make_can_id leaves when expect panics.
Panicked == -1

\* Result::expect
expect(result) == IF result = None THEN Panicked ELSE result[1]

\* make_can_id(header, payload)
make_can_id(header, payload) ==
    expect(CanId_try_from(make_can_id_bits(header, payload)))

-----------------------------------------------------------------------------
(* Transmitter::push_inner and push_frame (tx.rs).                         *)

\* Mutant: the timestamp and the identifier change places in the frame.
push_frame_swapped(q, cap, timestamp, id, data) ==
    queue_push_frame(q, cap, Frame_new(id, timestamp, data))

\* Mutant: the frame data is cut one byte short.
push_frame_truncated(q, cap, timestamp, id, data) ==
    queue_push_frame(q, cap,
                     Frame_new(timestamp, id, SubSeq(data, 1, Len(data) - 1)))

\* Mutant: the frame goes to the head of the queue.
push_frame_front(q, cap, timestamp, id, data) ==
    IF Len(q) < cap
    THEN [ok |-> TRUE, queue |-> <<Frame_new(timestamp, id, data)>> \o q]
    ELSE [ok |-> FALSE, queue |-> q]

\* Transmitter::push_frame: builds the frame and hands it to the queue.
push_frame(q, cap, timestamp, id, data) ==
    queue_push_frame(q, cap, Frame_new(timestamp, id, data))

\* Mutant: one frame too few is reserved.
reserved_frames_short(frame_stats) == frame_stats.frames - 1

\* Mutant: one frame too many is reserved.
reserved_frames_extra(frame_stats) == frame_stats.frames + 1

\* The number of frames push_inner reserves in the queue.
reserved_frames(frame_stats) == frame_stats.frames

\* Mutant: the answer of try_reserve is dropped instead of returned.
reservation_ignored(q, cap, frame_stats) == TRUE

\* self.frame_queue.try_reserve(frame_stats.frames)?: TRUE when push_inner
\* goes on, FALSE when it returns the OutOfMemoryError.
reservation(q, cap, frame_stats) == try_reserve(q, cap, reserved_frames(frame_stats))

\* payload.iter().cloned().chain(iter::repeat(0).take(last_frame_padding))
payload_and_padding(payload, frame_stats) ==
    payload \o [i \in 1..frame_stats.last_frame_padding |-> 0]

\* Mutant: the CRC is appended to every transfer.
needs_crc_always(frames) == TRUE

\* if frames != 0: the transfer needs a CRC
needs_crc(frames) == frames # 0

\* Mutant: the CRC value, least significant byte first.
crc_bytes_little_endian(crc_value) == <<crc_value % 256, crc_value \div 256>>

\* The CRC value, most significant byte first.
crc_bytes(crc_value) == <<crc_value \div 256, crc_value % 256>>

\* Mutant: the Breakdown is given the priority for the transfer-id.
breakdown_transfer_id_priority(header) == header.priority

\* The transfer-id handed to the Breakdown.
breakdown_transfer_id(header) == header.transfer_id

\* What add_byte does with the answer r of Breakdown::add.
take_frame(st, ctx, r, p, counted) ==
    IF p.ok
    THEN [st EXCEPT !.breakdown = r.breakdown, !.queue = p.queue,
                    !.calls = st.calls + 1,
                    !.frames = IF counted THEN st.frames + 1 ELSE st.frames]
    ELSE [st EXCEPT !.breakdown = r.breakdown, !.err = TRUE,
                    !.calls = st.calls + 1]

\* if let Some(frame_data) = breakdown.add(byte) { self.push_frame(...)? }
add_result(st, ctx, r, counted) ==
    IF r.frame = None
    THEN [st EXCEPT !.breakdown = r.breakdown]
    ELSE take_frame(st, ctx, r,
                    push_frame(st.queue, ctx.cap, ctx.timestamp, ctx.can_id,
                               r.frame[1]),
                    counted)

\* One byte offered to the Breakdown; a sealed frame goes to push_frame, whose
\* error ends push_inner at once (the ? operator).  st.calls counts the calls
\* of push_frame; st.frames is the local variable frames, which only the
\* payload loop increments (counted).
add_byte(st, ctx, byte, counted) ==
    add_result(st, ctx, Breakdown_add(st.breakdown, byte), counted)

\* One turn of the payload loop: the CRC sees the byte as the iterator yields
\* it, then the Breakdown takes it.  Nothing runs after an error.
payload_byte(st, ctx, byte) ==
    IF st.err THEN st
    ELSE add_byte([st EXCEPT !.crc = crc_add(st.crc, byte)], ctx, byte, TRUE)

RECURSIVE payload_loop(_, _, _, _, _)
\* for byte in payload_and_padding { ... }: bytes lo..hi of the stream, in order
payload_loop(st, ctx, stream, lo, hi) ==
    IF st.err \/ lo > hi THEN st
    ELSE IF lo = hi THEN payload_byte(st, ctx, stream[lo])
    ELSE LET mid == (lo + hi) \div 2 IN
         payload_loop(payload_loop(st, ctx, stream, lo, mid), ctx, stream,
                      mid + 1, hi)

RECURSIVE crc_loop(_, _, _, _)
\* for &byte in crc_bytes.iter() { ... }
crc_loop(st, ctx, bytes, i) ==
    IF st.err \/ i > Len(bytes) THEN st
    ELSE crc_loop(add_byte(st, ctx, bytes[i], FALSE), ctx, bytes, i + 1)

\* Mutant: the CRC bytes and the last frame go through a new Breakdown.
crc_step_new_breakdown(st, ctx) ==
    IF st.err \/ ~needs_crc(st.frames) THEN st
    ELSE crc_loop([st EXCEPT !.crc_fed = TRUE,
                             !.breakdown = Breakdown_new(st.breakdown.mtu,
                                                         st.breakdown.transfer_id)],
                  ctx, crc_bytes(st.crc), 1)

\* if frames != 0 { feed the CRC bytes }
crc_step(st, ctx) ==
    IF st.err \/ ~needs_crc(st.frames) THEN st
    ELSE crc_loop([st EXCEPT !.crc_fed = TRUE], ctx, crc_bytes(st.crc), 1)

\* Mutant: the last frame is never handed to the queue.
finish_step_dropped(st, ctx) == st

\* Mutant: the last frame is handed to the queue twice.
finish_step_twice(st, ctx) ==
    IF st.err THEN st
    ELSE [st EXCEPT !.queue = st.queue
                        \o <<Frame_new(ctx.timestamp, ctx.can_id,
                                        Breakdown_finish(st.breakdown)),
                              Frame_new(ctx.timestamp, ctx.can_id,
                                        Breakdown_finish(st.breakdown))>>,
                    !.calls = st.calls + 2]

\* What finish_step does with the answer p of push_frame.
finish_result(st, p) ==
    [st EXCEPT !.queue = p.queue, !.err = ~p.ok, !.calls = st.calls + 1]

\* let last_frame_data = breakdown.finish(); self.push_frame(...)?
finish_step(st, ctx) ==
    IF st.err THEN st
    ELSE finish_result(st, push_frame(st.queue, ctx.cap, ctx.timestamp,
                                      ctx.can_id, Breakdown_finish(st.breakdown)))

\* The state of push_inner before the first byte.
push_start(q, m, transfer) ==
    [queue |-> q, err |-> FALSE, crc |-> TransferCrc_new,
     breakdown |-> Breakdown_new(m, breakdown_transfer_id(transfer.header)),
     frames |-> 0, calls |-> 0, crc_fed |-> FALSE]

\* What push_inner returns and leaves behind once the queue has the room.
push_result(st, frame_stats) ==
    [ok |-> ~st.err, queue |-> st.queue, reserved |-> TRUE,
     reserve_arg |-> reserved_frames(frame_stats),
     calls |-> st.calls, crc_fed |-> st.crc_fed]

\* The segmentation: the payload loop, the CRC bytes, the last frame.
segment(st, ctx, stream) ==
    finish_step(crc_step(payload_loop(st, ctx, stream, 1, Len(stream)), ctx), ctx)

\* push_inner once frame_stats is known.
push_with_stats(q, cap, m, transfer, frame_stats) ==
    IF ~reservation(q, cap, frame_stats)
    THEN [ok |-> FALSE, queue |-> q, reserved |-> FALSE,
          reserve_arg |-> reserved_frames(frame_stats),
          calls |-> 0, crc_fed |-> FALSE]
    ELSE push_result(
             segment(push_start(q, m, transfer),
                     [cap |-> cap, timestamp |-> transfer.header.timestamp,
                      can_id |-> make_can_id(transfer.header, transfer.payload)],
                     payload_and_padding(transfer.payload, frame_stats)),
             frame_stats)

\* Mutant: the frames are always computed for classic CAN.
push_inner_classic(q, cap, m, transfer) ==
    push_with_stats(q, cap, 8, transfer,
                    calculate_frame_stats(Len(transfer.payload), 8))

\* Transmitter::push_inner: the result (ok for Ok(()), otherwise
\* OutOfMemoryError) and the queue it leaves, with what it did on the way.
push_inner(q, cap, m, transfer) ==
    push_with_stats(q, cap, m, transfer,
                    calculate_frame_stats(Len(transfer.payload), m))

-----------------------------------------------------------------------------
(* Inputs.                                                                 *)

\* A payload of n bytes: pat[1], pat[1] + pat[2], ... (modulo 256).
Payload(n, pat) == [i \in 1..n |-> (pat[1] + (i - 1) * pat[2]) % 256]

Transfer(header, payload) == [header |-> header, payload |-> payload]

\* spec.md scenarios S1, S2, S3, S4 and S6, and a three-frame response.
S1Transfer == Transfer(MessageHeader(1, 7, 4, 1234, Some(42)), <<222, 173, 190, 239>>)
S2Transfer == Transfer(MessageHeader(2, 30, 4, 1234, None), <<0, 0, 0>>)
S3Transfer == Transfer(MessageHeader(3, 0, 4, 1234, Some(42)), Payload(10, <<0, 1>>))
S4Transfer == Transfer(ServiceHeader("Request", 4, 3, 2, 511, 10, 20), <<1>>)
S6Transfer == Transfer(MessageHeader(5, 31, 4, 1234, Some(42)), <<9>>)
LongTransfer == Transfer(ServiceHeader("Response", 6, 21, 7, 430, 127, 0),
                         Payload(13, <<222, 37>>))

\* The transfers pushed in Spec.
Transfers == {S1Transfer, S2Transfer, S3Transfer, S4Transfer, S6Transfer, LongTransfer}

\* The headers and payload lengths pushed in SpecPush under MTU m.
WideHeaders ==
    {MessageHeader(1, 7, 4, 1234, Some(42)),
     MessageHeader(2, 30, 0, 8191, None),
     ServiceHeader("Request", 3, 31, 2, 511, 10, 20),
     ServiceHeader("Response", 4, 0, 7, 1, 127, 125)}

WideLengths(m) ==
    (0..MaxSmallLen)
    \cup {k * (m - 1) + d : k \in 1..MaxStride, d \in {0 - 2, 0 - 1, 0, 1}}

WidePatterns == {<<0, 1>>, <<222, 37>>}

WideTransfers(m) ==
    {Transfer(h, Payload(n, pat)) : h \in WideHeaders, n \in WideLengths(m),
                                    pat \in WidePatterns}

\* The frame an earlier push of S1Transfer left in the queue (scenario S1).
EarlierFrame ==
    Frame_new(S1Transfer.header.timestamp,
              make_can_id(S1Transfer.header, S1Transfer.payload),
              Append(S1Transfer.payload, make_tail_byte(TRUE, TRUE, TRUE, 7)))

-----------------------------------------------------------------------------
(* The transmitter.                                                        *)

NoTransfer == Transfer(MessageHeader(0, 0, 0, 0, None), <<>>)

\* The history record of an operation that is not a push.
Op(name) ==
    [op |-> name, transfer |-> NoTransfer, ok |-> TRUE,
     queue_before |-> frame_queue, mtu_before |-> mtu,
     transfer_count_before |-> transfer_count, error_count_before |-> error_count,
     reserved |-> FALSE, reserve_arg |-> 0, calls |-> 0, crc_fed |-> FALSE]

\* The MTUs of Spec: classic CAN, the smallest and the largest CAN FD size.
MtuChoices == {8, 12, 64}

\* Transmitter::new(Mtu::Can8, frame_queue) with an empty queue
Init ==
    /\ mtu = 8
    /\ capacity \in 1..MaxCapacity
    /\ frame_queue = <<>>
    /\ transfer_count = U64Zero
    /\ error_count = U64Zero
    /\ pushes = [calls |-> 0, ok |-> 0, err |-> 0]
    /\ owners = <<>>
    /\ last = Op("new")

\* Transmitter::new(mtu, frame_queue) with a queue that already holds frames
InitPush ==
    /\ mtu \in Mtu
    /\ capacity \in 1..MaxCapacity
    /\ frame_queue \in {[i \in 1..n |-> EarlierFrame] : n \in 0..capacity}
    /\ transfer_count = U64Zero
    /\ error_count = U64Zero
    /\ pushes = [calls |-> 0, ok |-> 0, err |-> 0]
    /\ owners = [i \in 1..Len(frame_queue) |->
                     [push |-> i - Len(frame_queue), transfer |-> S1Transfer,
                      index |-> 1, of |-> 1]]
    /\ last = Op("new")

\* Mutant: the transfer is counted before the result is looked at.
counters_after_counted_first(ok, tc, ec) ==
    IF ok
    THEN [transfer_count |-> wrapping_add_1(tc), error_count |-> ec]
    ELSE [transfer_count |-> wrapping_add_1(tc), error_count |-> wrapping_add_1(ec)]

\* The counters after push_inner returned: match self.push_inner(transfer)
counters_after(ok, tc, ec) ==
    IF ok
    THEN [transfer_count |-> wrapping_add_1(tc), error_count |-> ec]
    ELSE [transfer_count |-> tc, error_count |-> wrapping_add_1(ec)]

\* Transmitter::push(transfer)
push(transfer) ==
    \E r \in {push_inner(frame_queue, capacity, mtu, transfer)} :
    \E c \in {counters_after(r.ok, transfer_count, error_count)} :
        /\ frame_queue' = r.queue
        /\ transfer_count' = c.transfer_count
        /\ error_count' = c.error_count
        /\ pushes' = [calls |-> pushes.calls + 1,
                      ok |-> pushes.ok + (IF r.ok THEN 1 ELSE 0),
                      err |-> pushes.err + (IF r.ok THEN 0 ELSE 1)]
        /\ last' = [op |-> "push", transfer |-> transfer, ok |-> r.ok,
                    queue_before |-> frame_queue, mtu_before |-> mtu,
                    transfer_count_before |-> transfer_count,
                    error_count_before |-> error_count,
                    reserved |-> r.reserved, reserve_arg |-> r.reserve_arg,
                    calls |-> r.calls, crc_fed |-> r.crc_fed]
        /\ owners' = owners \o [i \in 1..(Len(r.queue) - Len(frame_queue)) |->
                                   [push |-> pushes.calls + 1, transfer |-> transfer,
                                    index |-> i,
                                    of |-> Len(r.queue) - Len(frame_queue)]]
        /\ UNCHANGED <<capacity, mtu>>

\* Transmitter::set_mtu(mtu)
set_mtu(m) ==
    /\ mtu' = m
    /\ last' = Op("set_mtu")
    /\ UNCHANGED <<frame_queue, capacity, transfer_count, error_count, pushes,
                   owners>>

\* The consumer: while let Some(frame_out) = node.frame_queue_mut().pop_frame()
pop_frame ==
    /\ frame_queue # <<>>
    /\ frame_queue' = Tail(frame_queue)
    /\ owners' = Tail(owners)
    /\ last' = Op("pop_frame")
    /\ UNCHANGED <<capacity, mtu, transfer_count, error_count, pushes>>

Next ==
    \/ \E transfer \in Transfers : pushes.calls < MaxPushes /\ push(transfer)
    \/ \E m \in MtuChoices : set_mtu(m)
    \/ pop_frame

\* Pushes, MTU changes and pops in any order.
Spec == Init /\ [][Next]_vars

NextPush ==
    \E transfer \in WideTransfers(mtu) : pushes.calls = 0 /\ push(transfer)

\* One push into a transmitter as constructed, over every MTU and the payload
\* lengths around the frame boundaries.
SpecPush == InitPush /\ [][NextPush]_vars

-----------------------------------------------------------------------------
(* The identifier encoder on its own: make_can_id and make_pseudo_id over  *)
(* headers, payloads and ranges of reserved node-ids.                      *)

IdPriorities == 0..7
IdSubjects == {0, 1, 1234, 4096, 8191}
IdServices == {0, 1, 256, 430, 511}
IdNodes == {0, 1, 42, 64, 126, 127}

\* Payloads: empty, scenario S2, payloads that fold to 127, 126, 255 and 254,
\* to 0, and longer ones.
IdPayloads ==
    {<<>>, <<0, 0, 0>>, <<42>>, <<43>>, <<170>>, <<171>>, <<85>>, <<1, 2, 3, 4>>,
     <<255, 128>>, Payload(70, <<222, 37>>)}

\* The headers with a source node-id.
SourcedHeaders ==
    {MessageHeader(0, 0, prio, subject, Some(source)) :
        prio \in IdPriorities, subject \in IdSubjects, source \in IdNodes}
    \cup {ServiceHeader(kind, 0, 0, prio, service, source, destination) :
            kind \in {"Request", "Response"}, prio \in IdPriorities,
            service \in IdServices, source \in IdNodes, destination \in IdNodes}

\* The anonymous message headers.
AnonymousHeaders ==
    {MessageHeader(0, 0, prio, subject, None) :
        prio \in IdPriorities, subject \in IdSubjects}

\* The result of pseudo_id_run before it ran.
NoRun == [id |-> 0, steps |-> 0, underflow |-> FALSE]

\* The arguments of a call of make_can_id.
IdInput(header, payload) ==
    [op |-> "header", header |-> header, payload |-> payload,
     reserved |-> DiagnosticReserved, bits |-> 0, can_id |-> 0, run |-> NoRun]

\* The argument of a call of make_pseudo_id, with the node-ids low..127
\* diagnostic-reserved.
PseudoInput(payload, low) ==
    [op |-> "payload", header |-> NoTransfer.header, payload |-> payload,
     reserved |-> low..127, bits |-> 0, can_id |-> 0, run |-> NoRun]

IdInputs ==
    {IdInput(t.header, t.payload) : t \in Transfers}
    \cup {IdInput(h, p) : h \in SourcedHeaders, p \in {<<>>, <<42>>}}
    \cup {IdInput(h, p) : h \in AnonymousHeaders, p \in IdPayloads}
    \cup {PseudoInput(p, low) : p \in IdPayloads, low \in 1..127}

InitId ==
    /\ mtu = 8
    /\ capacity = 1
    /\ frame_queue = <<>>
    /\ transfer_count = U64Zero
    /\ error_count = U64Zero
    /\ pushes = [calls |-> 0, ok |-> 0, err |-> 0]
    /\ owners = <<>>
    /\ last \in IdInputs

\* make_can_id(&header, &payload): the packed u32 and the CanId
encode_id ==
    /\ last.op = "header"
    /\ last' = [last EXCEPT !.op = "make_can_id",
                            !.bits = make_can_id_bits(last.header, last.payload),
                            !.can_id = make_can_id(last.header, last.payload)]
    /\ UNCHANGED <<frame_queue, capacity, mtu, transfer_count, error_count, pushes,
                   owners>>

\* make_pseudo_id(payload)
derive_pseudo_id ==
    /\ last.op = "payload"
    /\ last' = [last EXCEPT !.op = "make_pseudo_id",
                            !.run = pseudo_id_run(last.payload, last.reserved)]
    /\ UNCHANGED <<frame_queue, capacity, mtu, transfer_count, error_count, pushes,
                   owners>>

NextId == encode_id \/ derive_pseudo_id

\* One call of make_can_id or of make_pseudo_id on each input.
SpecId == InitId /\ [][NextId]_vars

-----------------------------------------------------------------------------
(* Properties.  In a state that a push has just produced, last describes   *)
(* that push and the frames it enqueued are the tail of the queue.         *)

AfterPush == last.op = "push"
AfterOk == last.op = "push" /\ last.ok
AfterOutOfMemory == last.op = "push" /\ ~last.ok

\* The frames the last push enqueued, in enqueue order.
Pushed == SubSeq(frame_queue, Len(last.queue_before) + 1, Len(frame_queue))

\* P, U and the frame count of the last push as spec.md section 8 states it.
PayloadLen == Len(last.transfer.payload)
UserBytes == last.mtu_before - 1
CeilDiv(a, b) == (a + b - 1) \div b
ExpectedFrames ==
    IF PayloadLen <= UserBytes THEN 1 ELSE CeilDiv(PayloadLen + 2, UserBytes)
ExpectedPadding ==
    IF PayloadLen <= UserBytes THEN 0 ELSE (0 - (PayloadLen + 2)) % UserBytes

\* C1: atomicity.  After a push that returned OutOfMemory the queue holds
\* exactly the frames it held before the call; a 2-frame transfer pushed into
\* an empty queue of capacity 1 returns OutOfMemory and leaves the queue empty,
\* with error_count 1 and transfer_count 0.
C1_Atomicity ==
    /\ AfterOutOfMemory => frame_queue = last.queue_before
    /\ (AfterPush /\ capacity = 1 /\ last.queue_before = <<>> /\ ExpectedFrames = 2)
         => (/\ ~last.ok
             /\ frame_queue = <<>>
             /\ error_count = U64Of(1)
             /\ transfer_count = U64Zero)

\* C1 witness: a 2-frame transfer was rejected by an empty queue of capacity 1.
C1_Witness ==
    /\ AfterOutOfMemory
    /\ capacity = 1
    /\ last.queue_before = <<>>
    /\ ExpectedFrames = 2

\* C2: reservation sufficiency.  Whenever try_reserve(N) succeeded, push_frame
\* was called exactly N times, none of the calls failed and push returned Ok.
C2_ReservationSufficient ==
    (AfterPush /\ last.reserved) => (last.calls = last.reserve_arg /\ last.ok)

\* C2 witness: a reserved push of a payload of exactly MTU bytes, into a queue
\* that the transfer fills to its capacity.
C2_Witness ==
    /\ AfterPush
    /\ last.reserved
    /\ PayloadLen = last.mtu_before
    /\ last.calls = 2
    /\ Len(frame_queue) = capacity

\* C3: frame count.  A successful push grows the queue by exactly 1 frame if
\* P <= U and by ceil((P + 2) / U) frames otherwise, which is
\* (P + padding + 2) / U with padding = (-(P + 2)) mod U.
C3_FrameCount ==
    AfterOk =>
        /\ Len(frame_queue) = Len(last.queue_before) + ExpectedFrames
        /\ SubSeq(frame_queue, 1, Len(last.queue_before)) = last.queue_before
        /\ PayloadLen > UserBytes =>
             /\ (PayloadLen + ExpectedPadding + 2) % UserBytes = 0
             /\ ExpectedFrames = (PayloadLen + ExpectedPadding + 2) \div UserBytes

\* C3 witness: a successful push of three frames whose stream needed padding.
C3_Witness ==
    /\ AfterOk
    /\ ExpectedFrames = 3
    /\ ExpectedPadding > 0
    /\ Len(Pushed) = 3

\* The fields of a frame's tail byte, the last byte of its data.
TailByte(frame) == frame.data[Len(frame.data)]
StartOfTransfer(frame) == Bit(TailByte(frame), 7) = 1
EndOfTransfer(frame) == Bit(TailByte(frame), 6) = 1
Toggle(frame) == Bit(TailByte(frame), 5)
TailTransferId(frame) == Field(TailByte(frame), 4, 0)

\* The data of a frame without its tail byte.
StreamBytes(frame) == SubSeq(frame.data, 1, Len(frame.data) - 1)

RECURSIVE Concat(_, _)
\* The stream bytes of frames[i..], concatenated in order.
Concat(frames, i) ==
    IF i > Len(frames) THEN <<>>
    ELSE StreamBytes(frames[i]) \o Concat(frames, i + 1)

Zeros(n) == [i \in 1..n |-> 0]

\* C4: start and end flags.  Of the frames of one successful push exactly one
\* has start_of_transfer set, the first, and exactly one has end_of_transfer
\* set, the last; a frame has both set if and only if P <= MTU - 1.
C4_StartEndFlags ==
    AfterOk =>
        /\ Len(Pushed) >= 1
        /\ \A i \in 1..Len(Pushed) :
             /\ StartOfTransfer(Pushed[i]) <=> i = 1
             /\ EndOfTransfer(Pushed[i]) <=> i = Len(Pushed)
        /\ (\E i \in 1..Len(Pushed) :
                StartOfTransfer(Pushed[i]) /\ EndOfTransfer(Pushed[i]))
             <=> PayloadLen <= UserBytes

\* C4 witness: a successful push with a first, an intermediate and a last
\* frame.
C4_Witness ==
    /\ AfterOk
    /\ Len(Pushed) = 3
    /\ StartOfTransfer(Pushed[1]) /\ ~EndOfTransfer(Pushed[1])
    /\ ~StartOfTransfer(Pushed[2]) /\ ~EndOfTransfer(Pushed[2])
    /\ ~StartOfTransfer(Pushed[3]) /\ EndOfTransfer(Pushed[3])

\* C5: toggle alternation.  The k-th frame (k = 0, 1, 2, ...) enqueued by one
\* push has toggle 1 when k is even and 0 when k is odd.
C5_ToggleAlternates ==
    AfterPush =>
        \A i \in 1..Len(Pushed) : Toggle(Pushed[i]) = (IF i % 2 = 1 THEN 1 ELSE 0)

\* C5 witness: a push whose three frames carry the toggles 1, 0, 1, the last
\* of them being the frame with the CRC bytes.
C5_Witness ==
    /\ AfterOk
    /\ last.crc_fed
    /\ Len(Pushed) = 3
    /\ <<Toggle(Pushed[1]), Toggle(Pushed[2]), Toggle(Pushed[3])>> = <<1, 0, 1>>

\* C6: stream layout and payload recoverability.  For a multi-frame transfer
\* the stream bytes of its frames, concatenated in enqueue order, are the
\* payload, then (-(P + 2)) mod U zero bytes, then the CRC of payload and
\* padding, high byte first; the first P bytes are the payload.
C6_StreamLayout ==
    (AfterOk /\ PayloadLen > UserBytes) =>
        /\ Concat(Pushed, 1)
             = last.transfer.payload \o Zeros(ExpectedPadding)
               \o <<crc_of(TransferCrc_new,
                           last.transfer.payload \o Zeros(ExpectedPadding),
                           1, PayloadLen + ExpectedPadding) \div 256,
                    crc_of(TransferCrc_new,
                           last.transfer.payload \o Zeros(ExpectedPadding),
                           1, PayloadLen + ExpectedPadding) % 256>>
        /\ SubSeq(Concat(Pushed, 1), 1, PayloadLen) = last.transfer.payload

\* C6 witness: a successful multi-frame push with padding, whose payload does
\* not end in a zero byte and whose CRC bytes differ.
C6_Witness ==
    /\ AfterOk
    /\ PayloadLen > UserBytes
    /\ ExpectedPadding > 0
    /\ last.transfer.payload[PayloadLen] # 0
    /\ Pushed[Len(Pushed)].data[last.mtu_before - 2]
         # Pushed[Len(Pushed)].data[last.mtu_before - 1]

\* C7: single-frame purity.  For P <= MTU - 1 the one enqueued frame is the
\* payload followed by the tail byte, P + 1 bytes; the CRC bytes are fed to the
\* Breakdown if and only if P > MTU - 1.
C7_SingleFramePurity ==
    /\ (AfterOk /\ PayloadLen <= UserBytes) =>
          /\ Len(Pushed) = 1
          /\ Len(Pushed[1].data) = PayloadLen + 1
          /\ StreamBytes(Pushed[1]) = last.transfer.payload
    /\ (AfterPush /\ last.reserved) => (last.crc_fed <=> PayloadLen > UserBytes)

\* C7 witness: a successful single-frame push of exactly MTU - 1 payload bytes.
C7_Witness ==
    /\ AfterOk
    /\ PayloadLen = UserBytes
    /\ ~last.crc_fed
    /\ Len(Pushed) = 1
    /\ Len(Pushed[1].data) = last.mtu_before

\* C8: counters.  Every push increments exactly one of transfer_count (on Ok)
\* and error_count (on OutOfMemory) by 1 modulo 2^64 and leaves the other
\* unchanged; after n pushes transfer_count + error_count = n modulo 2^64,
\* transfer_count is the number of Ok results and error_count the number of
\* OutOfMemory results.
C8_Counters ==
    /\ AfterOk =>
          /\ transfer_count = U64Add(last.transfer_count_before, U64Of(1))
          /\ error_count = last.error_count_before
    /\ AfterOutOfMemory =>
          /\ error_count = U64Add(last.error_count_before, U64Of(1))
          /\ transfer_count = last.transfer_count_before
    /\ U64Add(transfer_count, error_count) = U64Of(pushes.calls)
    /\ transfer_count = U64Of(pushes.ok)
    /\ error_count = U64Of(pushes.err)

\* C8 witness: three pushes, of which one at least succeeded and one at least
\* was rejected, the last one rejected.
C8_Witness ==
    /\ AfterOutOfMemory
    /\ pushes.calls = 3
    /\ pushes.ok >= 1
    /\ error_count = U64Of(pushes.err)
    /\ transfer_count = U64Of(pushes.ok)

\* C9: tail transfer-id.  The low 5 bits of the tail byte of every queued frame
\* are the transfer-id (& 0x1F) of the transfer whose push enqueued the frame.
C9_TailTransferId ==
    /\ Len(owners) = Len(frame_queue)
    /\ \A i \in 1..Len(frame_queue) :
          TailTransferId(frame_queue[i]) = owners[i].transfer.header.transfer_id % 32

\* C9 witness: back-to-back single-frame pushes with transfer-ids 30 and 31
\* left two frames that carry 30, then 31.
C9_Witness ==
    \E i \in 1..(Len(frame_queue) - 1) :
        /\ owners[i].transfer.header.transfer_id = 30
        /\ owners[i + 1].transfer.header.transfer_id = 31
        /\ owners[i + 1].push = owners[i].push + 1
        /\ TailTransferId(frame_queue[i]) = 30
        /\ TailTransferId(frame_queue[i + 1]) = 31

\* C10: identifier identity.  All frames enqueued by one push carry the same
\* CAN identifier, the one make_can_id gives for the header and the payload,
\* and the same timestamp, the header's.
C10_IdentifierIdentity ==
    AfterPush =>
        /\ \A i \in 1..Len(Pushed) :
              /\ Pushed[i].id = make_can_id(last.transfer.header, last.transfer.payload)
              /\ Pushed[i].timestamp = last.transfer.header.timestamp
        /\ \A i, j \in 1..Len(Pushed) :
              /\ Pushed[i].id = Pushed[j].id
              /\ Pushed[i].timestamp = Pushed[j].timestamp

\* C10 witness: a three-frame anonymous message, whose identifier depends on
\* the payload, with one identifier and one timestamp on its three frames.
C10_Witness ==
    /\ AfterOk
    /\ last.transfer.header.source = None
    /\ Len(Pushed) = 3
    /\ Pushed[1].id = Pushed[3].id
    /\ Pushed[1].timestamp = Pushed[3].timestamp
    /\ Pushed[1].id # Pushed[1].timestamp

\* C11: ordering and non-interleaving.  The queue holds the frames of the
\* successful pushes in push order; the frames of one push are one contiguous
\* run, in the order they were produced; a frame carries start_of_transfer if
\* and only if it is the first of its run and end_of_transfer if and only if
\* it is the last; every frame carries the timestamp of the transfer of its
\* run; the run at the tail of the queue is complete, and only the run at the
\* head can have lost frames, to the consumer.
C11_OrderedRuns ==
    /\ Len(owners) = Len(frame_queue)
    /\ \A i \in 1..Len(frame_queue) :
          /\ owners[i].index \in 1..owners[i].of
          /\ StartOfTransfer(frame_queue[i]) <=> owners[i].index = 1
          /\ EndOfTransfer(frame_queue[i]) <=> owners[i].index = owners[i].of
          /\ frame_queue[i].timestamp = owners[i].transfer.header.timestamp
          /\ i = Len(frame_queue) => owners[i].index = owners[i].of
          /\ i < Len(frame_queue) =>
                \/ /\ owners[i + 1].push = owners[i].push
                   /\ owners[i + 1].index = owners[i].index + 1
                \/ /\ owners[i + 1].push > owners[i].push
                   /\ owners[i].index = owners[i].of
                   /\ owners[i + 1].index = 1
    /\ AfterOk => \A i \in 1..Len(Pushed) :
                     owners[Len(last.queue_before) + i].index = i

\* C11 witness: the queue holds the one frame of a push and then the two
\* frames of a later push, start first and end last.
C11_Witness ==
    /\ Len(frame_queue) = 3
    /\ owners[1].of = 1
    /\ owners[2].push > owners[1].push
    /\ owners[3].push = owners[2].push
    /\ StartOfTransfer(frame_queue[1]) /\ EndOfTransfer(frame_queue[1])
    /\ StartOfTransfer(frame_queue[2]) /\ ~EndOfTransfer(frame_queue[2])
    /\ ~StartOfTransfer(frame_queue[3]) /\ EndOfTransfer(frame_queue[3])

\* The frame count of a payload of P bytes under MTU m (spec.md section 8).
FramesFor(P, m) == IF P <= m - 1 THEN 1 ELSE CeilDiv(P + 2, m - 1)

\* C14: set_mtu takes effect on the next push and changes nothing else.  A
\* set_mtu step leaves the queue, its capacity and both counters as they were
\* and sets a supported MTU; only a set_mtu step changes the MTU; a push step
\* leaves the MTU as it was and reserves, counts and cuts its frames with the
\* MTU in force when it was called: it reserves FramesFor(P, mtu) frames and,
\* when it succeeds, appends that many frames behind the frames already queued,
\* none longer than mtu bytes and all but the last exactly mtu bytes long.
C14_SetMtuEffect ==
    [][/\ last'.op = "set_mtu" =>
            /\ frame_queue' = frame_queue
            /\ capacity' = capacity
            /\ transfer_count' = transfer_count
            /\ error_count' = error_count
            /\ mtu' \in Mtu
       /\ mtu' # mtu => last'.op = "set_mtu"
       /\ last'.op = "push" =>
            /\ mtu' = mtu
            /\ last'.mtu_before = mtu
            /\ last'.reserve_arg = FramesFor(Len(last'.transfer.payload), mtu)
            /\ last'.ok =>
                  /\ Len(frame_queue')
                       = Len(frame_queue) + FramesFor(Len(last'.transfer.payload), mtu)
                  /\ SubSeq(frame_queue', 1, Len(frame_queue)) = frame_queue
                  /\ \A i \in (Len(frame_queue) + 1)..Len(frame_queue') :
                        /\ Len(frame_queue'[i].data) <= mtu
                        /\ i < Len(frame_queue') => Len(frame_queue'[i].data) = mtu
                  /\ Len(last'.transfer.payload) <= mtu - 1 =>
                        Len(frame_queue'[Len(frame_queue')].data)
                          = Len(last'.transfer.payload) + 1
      ]_vars

\* C14 witness: the queue holds the two 8-byte-MTU frames of a transfer pushed
\* before set_mtu(12) and, behind them, the one 11-byte frame that the same
\* payload gave when pushed after it.
C14_Witness ==
    /\ AfterOk
    /\ last.mtu_before = 12
    /\ mtu = 12
    /\ Len(frame_queue) = 3
    /\ Len(frame_queue[1].data) = 8 /\ ~EndOfTransfer(frame_queue[1])
    /\ Len(frame_queue[2].data) = 8 /\ EndOfTransfer(frame_queue[2])
    /\ Len(frame_queue[3].data) = 11
    /\ StartOfTransfer(frame_queue[3]) /\ EndOfTransfer(frame_queue[3])
    /\ owners[3].transfer = owners[1].transfer

\* The data lengths a frame can have on the bus (spec.md section 6), without
\* the empty frame: classic CAN for MTU 8, CAN FD for the larger MTUs.
LegalDataLengths(m) ==
    IF m = 8 THEN 1..8 ELSE (1..8) \cup {12, 16, 20, 24, 32, 48, 64}

\* C15: legal data lengths.  Every frame a push enqueued has a data length
\* that is legal on its bus: in 1..8 under MTU 8, and in 1..8 or one of 12, 16,
\* 20, 24, 32, 48, 64 under a CAN FD MTU.
C15_LegalDataLengths ==
    AfterPush =>
        \A i \in 1..Len(Pushed) :
            Len(Pushed[i].data) \in LegalDataLengths(last.mtu_before)

\* C16: frame fullness.  Every frame a push enqueued has at least 1 and at
\* most MTU data bytes; its last byte is the tail byte of its place in the
\* transfer; a frame without end_of_transfer has exactly MTU bytes; the last
\* frame of a multi-frame transfer has at least one stream byte before its
\* tail.
C16_FrameFullness ==
    AfterPush =>
        \A i \in 1..Len(Pushed) :
            /\ Len(Pushed[i].data) \in 1..last.mtu_before
            /\ TailByte(Pushed[i])
                 = make_tail_byte(i = 1, i = Len(Pushed), i % 2 = 1,
                                  last.transfer.header.transfer_id)
            /\ ~EndOfTransfer(Pushed[i]) => Len(Pushed[i].data) = last.mtu_before
            /\ (Len(Pushed) > 1 /\ i = Len(Pushed)) => Len(Pushed[i].data) >= 2

\* C16 witness: a payload that ends exactly where the second frame is full;
\* the third and last frame carries padding and CRC before its tail.
C16_Witness ==
    /\ AfterOk
    /\ PayloadLen = 2 * UserBytes
    /\ Len(Pushed) = 3
    /\ Len(Pushed[1].data) = last.mtu_before
    /\ Len(Pushed[2].data) = last.mtu_before
    /\ Len(Pushed[3].data) >= 2
    /\ EndOfTransfer(Pushed[3])

\* C17: admission is exact.  With L frames in a queue of capacity K, the push
\* of a transfer that needs N frames returns Ok if and only if L + N <= K; an
\* admitted transfer leaves L + N frames, a rejected one L; over pushes, MTU
\* changes and pops the queue never holds more than K frames.
C17_AdmissionExact ==
    /\ Len(frame_queue) <= capacity
    /\ AfterPush =>
          /\ last.ok <=> Len(last.queue_before) + ExpectedFrames <= capacity
          /\ last.ok => Len(frame_queue) = Len(last.queue_before) + ExpectedFrames
          /\ ~last.ok => Len(frame_queue) = Len(last.queue_before)

\* C17 witness: after an earlier rejection, a transfer of two frames was
\* admitted into the room that was exactly left.
C17_Witness ==
    /\ AfterOk
    /\ pushes.err >= 1
    /\ Len(last.queue_before) >= 1
    /\ ExpectedFrames = 2
    /\ Len(frame_queue) = capacity

-----------------------------------------------------------------------------
(* Properties of the identifier encoder, in the states of SpecId.          *)

AfterEncode == last.op = "make_can_id"
AfterDerive == last.op = "make_pseudo_id"

\* C12: identifier bit layout.  make_can_id returns the priority in bits
\* 28..26 and, for a header with a source, the source node-id in bits 6..0;
\* for a Message bit 25 = 0, bit 24 = 1 iff the source is absent, bit 23 = 0,
\* bits 22 and 21 = 1, the subject-id in bits 20..8 and bit 7 = 0; for a
\* Request bits 25 and 24 = 1, for a Response bit 25 = 1 and bit 24 = 0, both
\* with the service-id in bits 22..14, bit 23 = 0 and the destination node-id
\* in bits 13..7.
C12_BitLayout ==
    AfterEncode =>
        /\ Field(last.can_id, 28, 26) = last.header.priority
        /\ last.header.source # None =>
              Field(last.can_id, 6, 0) = last.header.source[1]
        /\ last.header.kind = "Message" =>
              /\ Bit(last.can_id, 25) = 0
              /\ Bit(last.can_id, 24) = 1 <=> last.header.source = None
              /\ Bit(last.can_id, 23) = 0
              /\ Bit(last.can_id, 22) = 1
              /\ Bit(last.can_id, 21) = 1
              /\ Field(last.can_id, 20, 8) = last.header.port
              /\ Bit(last.can_id, 7) = 0
        /\ last.header.kind \in {"Request", "Response"} =>
              /\ Bit(last.can_id, 25) = 1
              /\ Bit(last.can_id, 24) = 1 <=> last.header.kind = "Request"
              /\ Bit(last.can_id, 23) = 0
              /\ Field(last.can_id, 22, 14) = last.header.port
              /\ Field(last.can_id, 13, 7) = last.header.destination

\* C12 witness: the identifier of the request of scenario S4, with service
\* bit and request bit set, service-id 511, destination 20, source 10 and
\* priority 2.
C12_Witness ==
    /\ AfterEncode
    /\ last.header = S4Transfer.header
    /\ Bit(last.can_id, 25) = 1 /\ Bit(last.can_id, 24) = 1
    /\ Field(last.can_id, 22, 14) = 511
    /\ Field(last.can_id, 13, 7) = 20
    /\ Field(last.can_id, 6, 0) = 10
    /\ Field(last.can_id, 28, 26) = 2

RECURSIVE FoldedXor(_, _)
\* 0x55 ^ payload[1] ^ ... ^ payload[i], bit by bit
FoldedXor(payload, i) ==
    IF i = 0 THEN 85 ELSE BitXor(FoldedXor(payload, i - 1), payload[i], 8)

\* The node-id that "truncate to 7 bits, then decrement by 1 while the value is
\* diagnostic-reserved" describes: the truncated value if it is not reserved,
\* otherwise the nearest node-id below it that is not.
ExpectedPseudoId(payload) ==
    CHOOSE n \in 0..127 :
        /\ n <= FoldedXor(payload, Len(payload)) % 128
        /\ n \notin DiagnosticReserved
        /\ \A k \in (n + 1)..(FoldedXor(payload, Len(payload)) % 128) :
              k \in DiagnosticReserved

\* C13: anonymous pseudo-id.  For a Message without a source, bits 6..0 of the
\* identifier are the XOR of 0x55 and all payload bytes, truncated to 7 bits
\* and decremented while diagnostic-reserved; bit 24 is set; anonymous headers
\* that differ in priority or subject get the same bits 6..0 for the same
\* payload; the payload 0, 0, 0 gives 0x55.
C13_PseudoIdValue ==
    (AfterEncode /\ last.header.source = None) =>
        /\ Field(last.can_id, 6, 0) = ExpectedPseudoId(last.payload)
        /\ Bit(last.can_id, 24) = 1
        /\ \A h \in AnonymousHeaders :
              Field(make_can_id(h, last.payload), 6, 0) = Field(last.can_id, 6, 0)
        /\ last.payload = <<0, 0, 0>> => Field(last.can_id, 6, 0) = 85

\* C13 witness: an anonymous message whose payload folds to 127, which is
\* diagnostic-reserved, got the pseudo-id 125 and the anonymous bit.
C13_Witness ==
    /\ AfterEncode
    /\ last.header.source = None
    /\ last.payload = <<42>>
    /\ FoldedXor(last.payload, 1) = 127
    /\ Field(last.can_id, 6, 0) = 125
    /\ Bit(last.can_id, 24) = 1

\* C18: 29-bit identifier.  For every header with its fields in range and
\* every payload, the u32 that make_can_id packs is below 2^29 (bits 31..29
\* are zero), the conversion to CanId succeeds and make_can_id returns the
\* packed value without a panic.
C18_FitsIn29Bits ==
    AfterEncode =>
        /\ last.header.priority \in 0..7
        /\ last.header.port < (IF last.header.kind = "Message" THEN Pow2(13)
                                                              ELSE Pow2(9))
        /\ last.header.destination < Pow2(7)
        /\ last.header.source # None => last.header.source[1] < Pow2(7)
        /\ last.bits \in 0..(Pow2(29) - 1)
        /\ Field(last.bits, 31, 29) = 0
        /\ CanId_try_from(last.bits) # None
        /\ last.can_id # Panicked
        /\ last.can_id = last.bits

\* C18 witness: the request with every field at its largest value.
C18_Witness ==
    /\ AfterEncode
    /\ last.header.kind = "Request"
    /\ last.header.priority = 7
    /\ last.header.port = 511
    /\ last.header.source = Some(127)
    /\ last.header.destination = 127
    /\ last.can_id = last.bits
    /\ Field(last.bits, 28, 24) = 31
    /\ Field(last.bits, 31, 29) = 0

\* C19: pseudo-id loop safety.  Whenever the reserved node-ids are low..127
\* with low >= 1, make_pseudo_id ends, after at most as many turns of its loop
\* as there are reserved node-ids, never subtracts 1 from 0 and returns a
\* node-id in 0..127 that is not reserved, for every payload, the empty one
\* included; the pseudo-id in an anonymous identifier is not
\* diagnostic-reserved.
C19_PseudoIdLoopSafe ==
    /\ AfterDerive =>
          /\ last.run.id \in 0..127
          /\ last.run.id \notin last.reserved
          /\ ~last.run.underflow
          /\ last.run.steps <= Cardinality(last.reserved)
          /\ last.run.steps < MaxLoopSteps
    /\ (AfterEncode /\ last.header.source = None) =>
          Field(last.can_id, 6, 0) \notin DiagnosticReserved

\* C19 witness: with every node-id but 0 reserved, a payload that folds to 127
\* took 127 turns of the loop down to node-id 0 and stopped there.
C19_Witness ==
    /\ AfterDerive
    /\ last.reserved = 1..127
    /\ last.payload = <<42>>
    /\ last.run.steps = 127
    /\ last.run.id = 0
    /\ ~last.run.underflow

\* The header fields that the bits of an identifier spell out.
Decode(id) ==
    [kind |-> IF Bit(id, 25) = 0 THEN "Message"
              ELSE IF Bit(id, 24) = 1 THEN "Request" ELSE "Response",
     priority |-> Field(id, 28, 26),
     port |-> IF Bit(id, 25) = 0 THEN Field(id, 20, 8) ELSE Field(id, 22, 14),
     source |-> Some(Field(id, 6, 0)),
     destination |-> IF Bit(id, 25) = 0 THEN 0 ELSE Field(id, 13, 7)]

\* The fields of a header that make_can_id packs.
Packed(header) ==
    [kind |-> header.kind, priority |-> header.priority, port |-> header.port,
     source |-> header.source, destination |-> header.destination]

\* The identifier of every header with a source, with the fields it packs.
IdTable == {<<make_can_id(h, <<>>), Packed(h)>> : h \in SourcedHeaders}

\* C20: identifier injectivity.  Over headers with a source node-id, no other
\* header that differs in variant, priority, subject-id or service-id,
\* destination or source has the same identifier, and every field is read
\* back from the identifier.
C20_Injective ==
    (AfterEncode /\ last.header.source # None) =>
        /\ \A entry \in IdTable :
              entry[1] = last.can_id => entry[2] = Packed(last.header)
        /\ Decode(last.can_id) = Packed(last.header)

\* C20 witness: the identifier of a response, read back field by field, while
\* the request with the same fields has another identifier.
C20_Witness ==
    /\ AfterEncode
    /\ last.header = ServiceHeader("Response", 0, 0, 7, 430, 127, 0)
    /\ Decode(last.can_id).kind = "Response"
    /\ Decode(last.can_id).port = 430
    /\ Decode(last.can_id).source = Some(127)
    /\ make_can_id(ServiceHeader("Request", 0, 0, 7, 430, 127, 0), <<>>)
         # last.can_id

====
